---- MODULE Spec2Model ----
(***************************************************************************)
(* Model of the virtualized reading engine of yuanyuanReader (Reader.tsx): *)
(* segmentation of a book into paragraphs, the estimated layout and its    *)
(* offset index, the viewport window, throttled progress persistence and   *)
(* the text-to-speech sequencer.                                           *)
(*                                                                         *)
(* Text is a sequence of one-character strings.  Indices into arrays are   *)
(* 0-based as in the source; At(s, i) reads a 0-based index.               *)
(***************************************************************************)
EXTENDS Integers, Sequences, FiniteSets, TLC

\* ------------------------------------------------------------------ bounds
\* number of start() calls explored
MaxStarts == 2
\* number of scroll gestures of the user explored
MaxScrolls == 2
\* number of A+/A- clicks explored
MaxFontClicks == 1
\* number of store writes that may be in flight at once
MaxInflight == 1
\* number of animation-frame callbacks that may be queued at once
MaxRaf == 2
\* length of the generated book texts
MaxTextLen == 5
\* number of times the reader is opened again after it was closed
MaxReopens == 1
\* number of not-found notices explored in one session
MaxNotices == 2
\* length of the text files uploaded
MaxUploadLen == 7
\* length of the contents saved from the editor
MaxEditLen == 2
\* number of editor saves of one book
MaxSaves == 1
\* greatest maximum chunk length the chunker is examined with
MaxChunkLen == 3

\* ------------------------------------------------------- program constants
DEFAULT_FONT_SIZE == 14
MIN_FONT_SIZE == 10
MAX_FONT_SIZE == 24
BUFFER == 3
\* window.innerHeight of the device the reader runs on
InnerHeight == 124
VIEWPORT_HEIGHT == InnerHeight - 44
\* clientHeight of the scroll container (the reader fills the window below
\* the 44px bar, the height VIEWPORT_HEIGHT estimates)
ClientHeight == VIEWPORT_HEIGHT
\* clientWidth of the scroll container
ClientWidth == 40
\* default maxLen of chunkText
MAX_CHUNK_LEN == 180

\* null of an index-valued field (readingIndex, chapterIndex)
Null == -1
\* null of currentUtteranceRef
NoUtter == <<>>
\* no scrollTo issued
NoScroll == [idx |-> -1, top |-> -1]
NL == "\n"
SP == " "

At(s, i) == s[i + 1]
Max2(a, b) == IF a >= b THEN a ELSE b
Min2(a, b) == IF a <= b THEN a ELSE b

clamp(n, lo, hi) == Max2(lo, Min2(hi, n))

\* ------------------------------------------------------------ text helpers
\* \s of the regular expressions, over the model's alphabet
IsSpace(c) == c \in {SP, NL}

RECURSIVE TrimStart(_)
TrimStart(s) ==
  IF s = <<>> THEN s
  ELSE IF IsSpace(Head(s)) THEN TrimStart(Tail(s)) ELSE s

RECURSIVE TrimEnd(_)
TrimEnd(s) ==
  IF s = <<>> THEN s
  ELSE IF IsSpace(s[Len(s)]) THEN TrimEnd(SubSeq(s, 1, Len(s) - 1)) ELSE s

\* String.prototype.trim
Trim(s) == TrimEnd(TrimStart(s))

\* first (1-based) position >= i that does not hold white space
RECURSIVE RunEnd(_, _)
RunEnd(s, i) ==
  IF i > Len(s) THEN i
  ELSE IF IsSpace(s[i]) THEN RunEnd(s, i + 1) ELSE i

\* last position in i..j-1 that holds a newline, 0 when there is none
LastNL(s, i, j) ==
  LET nls == {k \in i..(j - 1) : s[k] = NL}
  IN IF nls = {} THEN 0 ELSE CHOOSE k \in nls : \A m \in nls : m <= k

\* split(/\n\s*\n+/g): a match starts at a newline, \s* is greedy and \n+
\* then takes the last newline of the white-space run
RECURSIVE SplitBlank(_, _, _)
SplitBlank(s, i, start) ==
  IF i > Len(s) THEN <<SubSeq(s, start, Len(s))>>
  ELSE IF s[i] = NL /\ LastNL(s, i + 1, RunEnd(s, i + 1)) > 0
       THEN LET e == LastNL(s, i + 1, RunEnd(s, i + 1))
            IN <<SubSeq(s, start, i - 1)>> \o SplitBlank(s, e + 1, e + 1)
       ELSE SplitBlank(s, i + 1, start)

\* first position >= i that does not hold a newline
RECURSIVE NLRunEnd(_, _)
NLRunEnd(s, i) ==
  IF i > Len(s) THEN i
  ELSE IF s[i] = NL THEN NLRunEnd(s, i + 1) ELSE i

\* split(/\n+/g)
RECURSIVE SplitNLs(_, _, _)
SplitNLs(s, i, start) ==
  IF i > Len(s) THEN <<SubSeq(s, start, Len(s))>>
  ELSE IF s[i] = NL
       THEN LET e == NLRunEnd(s, i)
            IN <<SubSeq(s, start, i - 1)>> \o SplitNLs(s, e, e)
       ELSE SplitNLs(s, i + 1, start)

\* split("\n")
RECURSIVE SplitLine(_, _, _)
SplitLine(s, i, start) ==
  IF i > Len(s) THEN <<SubSeq(s, start, Len(s))>>
  ELSE IF s[i] = NL
       THEN <<SubSeq(s, start, i - 1)>> \o SplitLine(s, i + 1, i + 1)
       ELSE SplitLine(s, i + 1, start)

\* replace(/\s+/g, " ")
RECURSIVE CollapseSpace(_)
CollapseSpace(s) ==
  IF s = <<>> THEN s
  ELSE IF IsSpace(Head(s))
       THEN <<SP>> \o CollapseSpace(SubSeq(s, RunEnd(s, 1), Len(s)))
       ELSE <<Head(s)>> \o CollapseSpace(Tail(s))

\* filter(Boolean) on strings: drops the empty ones
NonEmpty(ss) == SelectSeq(ss, LAMBDA t : t # <<>>)

\* ---------------------------------------------------------------- library
\* Books of the store.  chapters holds the chapter start offsets (the index
\* field of the records parseChapters produces; titles play no role here).
Library ==
  << [content  |-> <<"a", ".", "a", NL, "a", NL, "a", NL, "a", NL,
                     "a", NL, "a", NL, "a", NL>>,
      chapters |-> <<0, 4, 14, 15>>],
     [content  |-> <<"a", ".", "a", NL, NL, "a", NL, SP, NL, "a", NL, "a",
                     NL, "a">>,
      chapters |-> <<>>],
     [content  |-> <<"a", ".", "a", ".">>,
      chapters |-> <<>>],
     [content  |-> <<NL, NL>>,
      chapters |-> <<0, 1>>] >>

BookIds == 1..Len(Library)

\* Generated books: every text of MaxTextLen characters over Alphabet, with
\* each of the chapter tables ChapterLists.
Alphabet == <<"a", "b", SP, NL>>

\* chapter tables of the generated books: start offsets (the fourth has a
\* chapter without text), no chapters, and one chapter that is the whole text
ChapterLists ==
  << <<0, 3>>, <<1, 4>>, <<0, 2, 4>>, <<0, 2, 2>>, <<>>, <<0>> >>

RECURSIVE Pow(_, _)
Pow(b, e) == IF e = 0 THEN 1 ELSE b * Pow(b, e - 1)

TextCount == Pow(Len(Alphabet), MaxTextLen)

\* the n-th text, n in 0..TextCount-1
TextOf(n) ==
  [k \in 1..MaxTextLen |->
     Alphabet[((n \div Pow(Len(Alphabet), k - 1)) % Len(Alphabet)) + 1]]

GeneratedBook(n) ==
  [content  |-> TextOf(n % TextCount),
   chapters |-> ChapterLists[(n \div TextCount) + 1]]

\* ids of the generated books
SegmentBooks ==
  (Len(Library) + 1)..(Len(Library) + TextCount * Len(ChapterLists))

\* Books for the chunker: every text of MaxTextLen characters over
\* ChunkAlphabet (a letter, a sentence-ending mark, a space), no chapters.
ChunkAlphabet == <<"a", ".", SP>>

ChunkTextCount == Pow(Len(ChunkAlphabet), MaxTextLen)

ChunkBook(n) ==
  [content  |-> [k \in 1..MaxTextLen |->
                   ChunkAlphabet[((n \div Pow(Len(ChunkAlphabet), k - 1))
                                    % Len(ChunkAlphabet)) + 1]],
   chapters |-> <<>>]

\* ids of the books for the chunker
ChunkBooks ==
  (Len(Library) + TextCount * Len(ChapterLists) + 1)
    ..(Len(Library) + TextCount * Len(ChapterLists) + ChunkTextCount)

\* the record db.books.get(b) resolves with
BookOf(b) ==
  IF b <= Len(Library) THEN Library[b]
  ELSE IF b <= Len(Library) + TextCount * Len(ChapterLists)
       THEN GeneratedBook(b - Len(Library) - 1)
       ELSE ChunkBook(b - Len(Library) - TextCount * Len(ChapterLists) - 1)

\* the books the speech sequencer is explored on
SpeechBooks == {2, 3}

\* ---------------------------------------------------------------- segmenter
\* Array.prototype.sort((a, b) => a.index - b.index) on the chapter offsets
RECURSIVE SortAsc(_)
SortAsc(cs) ==
  IF cs = <<>> THEN cs
  ELSE LET m == CHOOSE k \in 1..Len(cs) :
                   /\ \A j \in 1..Len(cs) : cs[k] <= cs[j]
                   /\ \A j \in 1..(k - 1) : cs[j] # cs[k]
       IN <<cs[m]>> \o SortAsc(SubSeq(cs, 1, m - 1) \o SubSeq(cs, m + 1, Len(cs)))

\* String.prototype.slice(start, end) for non-negative arguments
Slice(text, start, end) == SubSeq(text, start + 1, Min2(end, Len(text)))

RECURSIVE TrimAll(_)
TrimAll(ss) ==
  IF ss = <<>> THEN <<>> ELSE <<Trim(Head(ss))>> \o TrimAll(Tail(ss))

RECURSIVE SplitAllNLs(_)
SplitAllNLs(ss) ==
  IF ss = <<>> THEN <<>>
  ELSE SplitNLs(Head(ss), 1, 1) \o SplitAllNLs(Tail(ss))

\* the blocks of a slice without the trim
ChapterBlocks_NoTrim(slice) ==
  NonEmpty(SplitAllNLs(SplitBlank(slice, 1, 1)))

\* the blocks of one chapter slice
ChapterBlocks(slice) ==
  NonEmpty(TrimAll(SplitAllNLs(SplitBlank(slice, 1, 1))))

Tag(ts, ci) == [k \in 1..Len(ts) |-> [text |-> ts[k], chapterIndex |-> ci]]

RECURSIVE ChapterParas(_, _, _)
ChapterParas(text, chapters, i) ==
  IF i >= Len(chapters) THEN <<>>
  ELSE LET start == At(chapters, i)
           end   == IF i + 1 < Len(chapters) THEN At(chapters, i + 1)
                    ELSE Len(text)
       IN Tag(ChapterBlocks(Slice(text, start, end)), i)
            \o ChapterParas(text, chapters, i + 1)

\* the paragraphs memo of a loaded book
Segment(b) ==
  LET text     == b.content
      chapters == SortAsc(b.chapters)
  IN IF Len(chapters) = 0
     THEN Tag(NonEmpty(TrimAll(SplitBlank(text, 1, 1))), Null)
     ELSE ChapterParas(text, chapters, 0)

\* --------------------------------------------------------- layout estimator
\* Math.round(fontSize * 1.7)
LineHeightOf(fs) == (17 * fs + 5) \div 10

\* Math.ceil((lineCharCount * (fontSize + 1.15)) / width), in hundredths
EstimatedLineCount(n, fs, width) ==
  (n * (100 * fs + 115) + 100 * width - 1) \div (100 * width)

RECURSIVE SumRows(_, _, _)
SumRows(lines, fs, width) ==
  IF lines = <<>> THEN 0
  ELSE LET est == EstimatedLineCount(Len(CollapseSpace(Head(lines))), fs, width)
       IN (IF est = 0 THEN 1 ELSE est) + SumRows(Tail(lines), fs, width)

\* an estimate whose row count grows with the width
estimateParaHeight_WidthMultiplies(text, width, fs) ==
  IF width = 0 THEN LineHeightOf(fs)
  ELSE Len(SplitLine(text, 1, 1)) * width * LineHeightOf(fs) + 16

\* an estimate whose zero-width fallback includes the padding
estimateParaHeight_PaddedFallback(text, width, fs) ==
  IF width = 0 THEN LineHeightOf(fs) + 16
  ELSE SumRows(SplitLine(text, 1, 1), fs, width) * LineHeightOf(fs) + 16

estimateParaHeight(text, width, fs) ==
  IF width = 0 THEN LineHeightOf(fs)
  ELSE SumRows(SplitLine(text, 1, 1), fs, width) * LineHeightOf(fs) + 16

HeightsOf(ps, width, fs) ==
  [k \in 1..Len(ps) |-> estimateParaHeight(ps[k].text, width, fs)]

RECURSIVE SumSeq(_)
SumSeq(hs) == IF hs = <<>> THEN 0 ELSE Head(hs) + SumSeq(Tail(hs))

\* the offsets loop with the push after the addition
OffsetsOf_PushAfterAdd(hs) == [k \in 1..Len(hs) |-> SumSeq(SubSeq(hs, 1, k))]

\* the cumulative offsets of a height array
OffsetsOf(hs) == [k \in 1..Len(hs) |-> SumSeq(SubSeq(hs, 1, k - 1))]

\* Array.prototype.findIndex(offset => offset > x): 0-based, -1 when none
FindIndexGT(offs, x) ==
  LET hits == {k \in 1..Len(offs) : offs[k] > x}
  IN IF hits = {} THEN -1
     ELSE (CHOOSE k \in hits : \A m \in hits : k <= m) - 1

\* ------------------------------------------------------------ book records
\* Characters of the uploaded files: "d" stands for the heading opener
\* U+7B2C, "z" for the heading closers U+7AE0 and U+56DE, "x" for any other
\* character that is not a line terminator.
UploadAlphabet == {"d", "x", "z", NL}

TextsUpTo(n) == UNION {[1..k -> UploadAlphabet] : k \in 0..n}

\* the texts of the files uploaded
UploadTexts == TextsUpTo(MaxUploadLen)

\* the contents the editor's textarea is saved with
EditTexts == TextsUpTo(MaxEditLen)

\* re.test(raw) for the heading pattern: the opener, one to nine
\* characters, a closer
MatchesHeading(line) ==
  \E i, j \in 1..Len(line) :
    /\ line[i] = "d"
    /\ line[j] = "z"
    /\ j - i - 1 \in 1..9

\* offsets[i]: the character offset at which line i (1-based) starts
LineStart(lines, i) == SumSeq([k \in 1..(i - 1) |-> Len(lines[k]) + 1])

\* the index fields of the chapters parseChapters returns, in order
parseChapters(content) ==
  LET lines == SplitLine(content, 1, 1)
      hits  == SelectSeq([k \in 1..Len(lines) |-> k],
                         LAMBDA k : MatchesHeading(lines[k]))
  IN [m \in 1..Len(hits) |-> LineStart(lines, hits[m])]

\* ------------------------------------------------------------------- state
VARIABLES
  phase,        \* "loading" (get(id) pending), "open" (book shown),
                \* "missing" (get(id) found nothing, the reader still
                \* mounted), "closed"
  bookId,       \* the bookId prop once get(bookId) has found it, 0 before
  opens,        \* number of times the reader was opened again
  notices,      \* not-found notices shown by this reader
  book,         \* the book state: an id of Library, 0 for null
  paragraphs,   \* the paragraphs memo
  paraHeights,  \* the paraHeights memo
  paraOffsets,  \* the paraOffsets memo
  containerWidth,
  fontSize,
  fontClicks,   \* number of A+/A- clicks so far
  scrollTop,    \* the scrollTop state
  elScrollTop,  \* containerRef.current.scrollTop
  scrollEvt,    \* a scroll event of the container awaits delivery
  scrolls,      \* number of scroll gestures so far
  rafRef,       \* rafRef.current != null
  rafQueue,     \* callbacks handed to requestAnimationFrame, in order
  store,        \* progressPx and percent of the book record
  inflight,     \* db.books.update calls not yet committed, in order
  isReading, isPaused, readingIndex,
  isReadingRef,
  currentUtteranceRef,
  starts,       \* number of startReadingFromScreenTop calls so far
  synth,        \* utterance queue of window.speechSynthesis; head speaks
  synthPaused,  \* paused state of window.speechSynthesis
  late,         \* cancelled utterances whose end/error event is not yet fired
  handed,       \* the utterance of the latest speechSynthesis.speak call
  autoScroll,   \* the scrollTo issued by the latest step, if any
  lastScrollPos, \* position of the latest scroll event handled
  record        \* the book record added by the upload: id 0 before it,
                \* content, chapter offsets, updatedAt (number of saves)

vars == << phase, bookId, opens, notices, book, paragraphs, paraHeights, paraOffsets, containerWidth, fontSize, fontClicks,
           scrollTop, elScrollTop, scrollEvt, scrolls, rafRef, rafQueue, store,
           inflight, isReading, isPaused, readingIndex, isReadingRef,
           currentUtteranceRef, starts, synth, synthPaused, late, handed,
           autoScroll, lastScrollPos, record >>

sessionVars == << bookId, opens, notices >>
readerVars == << phase, book, paragraphs, containerWidth, sessionVars, record >>
layoutVars == << paraHeights, paraOffsets >>
fontVars   == << fontSize, fontClicks, scrolls >>
scrollVars == << scrollTop, elScrollTop, scrollEvt, lastScrollPos >>
writeVars  == << rafRef, rafQueue, inflight >>
speechVars == << isReading, isPaused, readingIndex, isReadingRef,
                 currentUtteranceRef, starts, synth, synthPaused, late,
                 handed >>

\* -------------------------------------------------------- derived (render)
lineHeight == LineHeightOf(fontSize)

totalHeight == SumSeq(paraHeights)

\* the viewport window of a render with scroll position st
StartIndexAt(st) == Max2(0, FindIndexGT(paraOffsets, st) - BUFFER)

EndIndexAt(st) ==
  Min2(Len(paragraphs),
       FindIndexGT(paraOffsets, st + VIEWPORT_HEIGHT) + BUFFER)

startIndex == StartIndexAt(scrollTop)

endIndex == EndIndexAt(scrollTop)

\* the scroll range of the container for a content height
MaxScrollOf(total) == Max2(0, total - ClientHeight)

MaxScroll == MaxScrollOf(totalHeight)

\* assignment to el.scrollTop: the container clamps it to its scroll range
ClampScroll(pos, total) == clamp(pos, 0, MaxScrollOf(total))

\* positions a scroll gesture of the user stops at: the paragraph tops and the
\* end of the scroll range
ScrollStops ==
  {MaxScroll} \cup
  {p \in 0..MaxScroll : \E k \in 1..Len(paraOffsets) : p = paraOffsets[k]}

containerAttached == phase # "closed"

\* ---------------------------------------------------------------- chunking
\* sentence-ending punctuation of chunkText, over the model's alphabet
IsPunct(ch) == ch = "."

\* split(/(?<=[.])/): cuts after each punctuation mark but not at the end
RECURSIVE SplitSentences(_, _, _)
SplitSentences(s, i, start) ==
  IF i > Len(s) THEN <<SubSeq(s, start, Len(s))>>
  ELSE IF IsPunct(s[i]) /\ i < Len(s)
       THEN <<SubSeq(s, start, i)>> \o SplitSentences(s, i + 1, i + 1)
       ELSE SplitSentences(s, i + 1, start)

\* the slicing loop with a step one longer than the slice
RECURSIVE HardSplit_SkipsOne(_, _)
HardSplit_SkipsOne(s, maxLen) ==
  IF Len(s) = 0 THEN <<>>
  ELSE <<SubSeq(s, 1, Min2(maxLen, Len(s)))>>
         \o HardSplit_SkipsOne(SubSeq(s, maxLen + 2, Len(s)), maxLen)

RECURSIVE HardSplit(_, _)
HardSplit(s, maxLen) ==
  IF Len(s) = 0 THEN <<>>
  ELSE <<SubSeq(s, 1, Min2(maxLen, Len(s)))>>
         \o HardSplit(SubSeq(s, maxLen + 1, Len(s)), maxLen)

RECURSIVE ChunkSentences(_, _)
ChunkSentences(ss, maxLen) ==
  IF ss = <<>> THEN <<>>
  ELSE LET sn == Head(ss)
       IN (IF Len(sn) <= maxLen
           THEN (IF Trim(sn) # <<>> THEN <<Trim(sn)>> ELSE <<>>)
           ELSE HardSplit(sn, maxLen))
          \o ChunkSentences(Tail(ss), maxLen)

\* the collapsed text and its sentences are values computed once (const
\* sentences = ...), then chunked
chunkText(text, maxLen) ==
  LET sentences == {SplitSentences(t, 1, 1) : t \in {CollapseSpace(text)}}
  IN CHOOSE parts \in {ChunkSentences(ss, maxLen) : ss \in sentences} : TRUE

\* chunks.length of paragraph idx inside speakParagraph
NumChunks(idx) == Len(chunkText(Trim(At(paragraphs, idx).text), MAX_CHUNK_LEN))

\* ------------------------------------------------------- chapter navigator
currentChapterIndex ==
  IF book = 0 \/ Len(paraOffsets) = 0 THEN -1
  ELSE LET hits == {i \in 0..(Len(paraOffsets) - 1) : scrollTop >= At(paraOffsets, i)}
           idx  == IF hits = {} THEN 0
                   ELSE CHOOSE i \in hits : \A m \in hits : m <= i
           ci   == At(paragraphs, idx).chapterIndex
       IN IF ci = Null THEN -1 ELSE ci

\* paragraphs.findIndex(p => p.chapterIndex === chapterIndex)
FirstParaOfChapter(ci) ==
  LET hits == {i \in 0..(Len(paragraphs) - 1) : At(paragraphs, i).chapterIndex = ci}
  IN IF hits = {} THEN -1 ELSE CHOOSE i \in hits : \A m \in hits : i <= m

ChapterCount == IF book = 0 THEN 0 ELSE Len(BookOf(book).chapters)

\* ---------------------------------------------------------- speech helpers
\* findParagraphAtScroll with a bottom edge that belongs to the paragraph
findParagraphAtScroll_ClosedBottom(pos) ==
  IF Len(paraOffsets) = 0 THEN 0
  ELSE LET hits == {i \in 0..(Len(paraOffsets) - 1) :
                      pos <= At(paraOffsets, i) + At(paraHeights, i)}
       IN IF hits = {} THEN Len(paragraphs) - 1
          ELSE CHOOSE i \in hits : \A m \in hits : i <= m

findParagraphAtScroll(pos) ==
  IF Len(paraOffsets) = 0 THEN 0
  ELSE LET hits == {i \in 0..(Len(paraOffsets) - 1) :
                      pos < At(paraOffsets, i) + At(paraHeights, i)}
       IN IF hits = {} THEN Len(paragraphs) - 1
          ELSE CHOOSE i \in hits : \A m \in hits : i <= m

UtterKey(u) == <<u.sess, u.idx, u.c>>

\* first index >= idx whose trimmed text is not empty (speakParagraph calls
\* itself on idx + 1 for an empty paragraph); Len(paragraphs) when none
RECURSIVE SkipEmpty(_)
SkipEmpty(idx) ==
  IF idx >= Len(paragraphs) THEN idx
  ELSE IF Trim(At(paragraphs, idx).text) = <<>> THEN SkipEmpty(idx + 1)
       ELSE idx

\* speakParagraph that returns at the end of the book without ending the
\* session
ParagraphEffect_NeverEnds(sess, offs, idx) ==
  LET j == SkipEmpty(idx)
  IN IF j < 0 \/ j >= Len(paragraphs)
     THEN [kind |-> "none"]
     ELSE [kind   |-> "speak",
           ri     |-> j,
           scroll |-> IF j < Len(offs) THEN At(offs, j) ELSE 0,
           utter  |-> [sess |-> sess, idx |-> j, c |-> 0, offs |-> offs,
                       onend |-> TRUE]]

\* what speakParagraph(idx) does once isReadingRef.current is known true,
\* in the closure that captured the offsets offs
ParagraphEffect(sess, offs, idx) ==
  LET j == SkipEmpty(idx)
  IN IF j < 0 \/ j >= Len(paragraphs)
     THEN [kind |-> "end"]
     ELSE [kind   |-> "speak",
           ri     |-> j,
           scroll |-> IF j < Len(offs) THEN At(offs, j) ELSE 0,
           utter  |-> [sess |-> sess, idx |-> j, c |-> 0, offs |-> offs,
                       onend |-> TRUE]]

\* speakNextChunk without its check of the liveness flag
ChunkEffect_NoLivenessCheck(u) ==
  IF u.c + 1 >= NumChunks(u.idx)
  THEN ParagraphEffect(u.sess, u.offs, u.idx + 1)
  ELSE [kind   |-> "speak",
        ri     |-> readingIndex,
        scroll |-> Null,
        utter  |-> [u EXCEPT !.c = u.c + 1, !.onend = TRUE]]

\* speakNextChunk as run by the completion handlers of utterance u after
\* c += 1
ChunkEffect(u) ==
  IF ~isReadingRef THEN [kind |-> "none"]
  ELSE IF u.c + 1 >= NumChunks(u.idx)
       THEN ParagraphEffect(u.sess, u.offs, u.idx + 1)
       ELSE [kind   |-> "speak",
             ri     |-> readingIndex,
             scroll |-> Null,
             utter  |-> [u EXCEPT !.c = u.c + 1, !.onend = TRUE]]

\* the state after an effect; base is the utterance queue and reading the
\* isReading state it finds
Apply(eff, base, reading) ==
  /\ isReading' = IF eff.kind = "end" THEN FALSE ELSE reading
  /\ readingIndex' = CASE eff.kind = "end"   -> Null
                       [] eff.kind = "speak" -> eff.ri
                       [] OTHER              -> readingIndex
  /\ synth' = IF eff.kind = "speak" THEN Append(base, eff.utter) ELSE base
  /\ currentUtteranceRef' =
       IF eff.kind = "speak" THEN UtterKey(eff.utter) ELSE currentUtteranceRef
  /\ handed' = IF eff.kind = "speak" THEN UtterKey(eff.utter) ELSE handed
  /\ IF eff.kind = "speak" /\ eff.scroll # Null /\ containerAttached
     THEN /\ elScrollTop' = ClampScroll(eff.scroll, totalHeight)
          /\ scrollEvt' = (scrollEvt \/ elScrollTop' # elScrollTop)
          /\ autoScroll' = [idx |-> eff.ri, top |-> eff.scroll]
     ELSE /\ UNCHANGED << elScrollTop, scrollEvt >>
          /\ autoScroll' = NoScroll

\* ------------------------------------------------------------------- init
InitFontSizes == {DEFAULT_FONT_SIZE}

Init ==
  /\ phase = "loading"
  /\ bookId = 0
  /\ opens = 0
  /\ notices = 0
  /\ book = 0
  /\ paragraphs = <<>>
  /\ paraHeights = <<>>
  /\ paraOffsets = <<>>
  /\ containerWidth = 0
  /\ fontSize \in InitFontSizes
  /\ fontClicks = 0
  /\ scrollTop = 0
  /\ elScrollTop = 0
  /\ scrollEvt = FALSE
  /\ scrolls = 0
  /\ rafRef = FALSE
  /\ rafQueue = <<>>
  /\ store = [progressPx |-> 0, percent |-> 0]
  /\ inflight = <<>>
  /\ isReading = FALSE
  /\ isPaused = FALSE
  /\ readingIndex = Null
  /\ isReadingRef = FALSE
  /\ currentUtteranceRef = NoUtter
  /\ starts = 0
  /\ synth = <<>>
  /\ synthPaused = FALSE
  /\ late = {}
  /\ handed = NoUtter
  /\ autoScroll = NoScroll
  /\ lastScrollPos = 0
  /\ record = [id |-> 0, content |-> <<>>, chapters |-> <<>>, updatedAt |-> 0]

\* a step that issues no scrollTo
NoAutoScroll == autoScroll' = NoScroll

\* --------------------------------------------------------------- lifecycle
\* get(id) resolves with a book: setBook, then the effects on [book] run
\* (container width, restore of the stored position while the content is
\* still laid out for width 0)
LoadBook(b) ==
  /\ phase = "loading"
  /\ bookId \in {0, b}
  /\ bookId' = b
  /\ UNCHANGED << opens, notices, record >>
  /\ phase' = "open"
  /\ book' = b
  /\ paragraphs' = Segment(BookOf(b))
  /\ containerWidth' = IF ClientWidth = 0 THEN 300 ELSE ClientWidth
  /\ paraHeights' = HeightsOf(paragraphs', containerWidth', fontSize)
  /\ paraOffsets' = OffsetsOf(paraHeights')
  /\ LET pos == store.progressPx
     IN /\ elScrollTop' =
             ClampScroll(pos, SumSeq(HeightsOf(paragraphs', 0, fontSize)))
        /\ scrollTop' = pos
        /\ scrollEvt' = (elScrollTop' # elScrollTop)
  /\ NoAutoScroll
  /\ UNCHANGED << fontVars, lastScrollPos, writeVars, store, speechVars >>

\* speechSynthesis.cancel(): the queue is emptied; the utterances removed
\* still get their end/error event
Cancelled(q) == {q[k] : k \in 1..Len(q)}

\* --------------------------------------------------------- progress tracker
\* the percent with the quotient truncated instead of rounded
Percent_Truncated(st, denom) == Min2(100, Max2(0, (100 * st) \div denom))

\* Math.round(clamp((st / denom) * 100, 0, 100))
Percent(st, denom) == Min2(100, Max2(0, (200 * st + denom) \div (2 * denom)))

WritePatch ==
  [progressPx |-> elScrollTop, percent |-> Percent(elScrollTop, Max2(1, MaxScroll))]

\* writeProgressNow up to its await: the update it hands to the store; el
\* tells whether containerRef.current is set when it runs
writeProgressNow(q, el) ==
  IF book = 0 \/ ~el THEN q ELSE Append(q, WritePatch)

CanWrite == (book # 0 /\ containerAttached) => Len(inflight) < MaxInflight

\* handleScroll without the early return on a scheduled write
handleScroll_NoThrottle(pos) ==
  /\ scrollTop' = pos
  /\ lastScrollPos' = pos
  /\ scrollEvt' = FALSE
  /\ rafRef' = TRUE
  /\ rafQueue' = Append(rafQueue, "scroll")

\* handleScroll of a scroll event that reports position pos
handleScroll(pos) ==
  /\ scrollTop' = pos
  /\ lastScrollPos' = pos
  /\ scrollEvt' = FALSE
  /\ IF rafRef
     THEN UNCHANGED << rafRef, rafQueue >>
     ELSE /\ rafRef' = TRUE
          /\ rafQueue' = Append(rafQueue, "scroll")

\* the user drags the content to pos; the container reports it
UserScroll(pos) ==
  /\ phase = "open"
  /\ pos # elScrollTop
  /\ scrolls < MaxScrolls
  /\ rafRef \/ Len(rafQueue) < MaxRaf
  /\ scrolls' = scrolls + 1
  /\ elScrollTop' = pos
  /\ handleScroll(pos)
  /\ NoAutoScroll
  /\ UNCHANGED << readerVars, layoutVars, fontSize, fontClicks, store, inflight,
                  speechVars >>

\* the scroll event of a programmatic change of el.scrollTop
DeliverScroll ==
  /\ phase = "open"
  /\ scrollEvt
  /\ rafRef \/ Len(rafQueue) < MaxRaf
  /\ handleScroll(elScrollTop)
  /\ NoAutoScroll
  /\ UNCHANGED << readerVars, layoutVars, fontVars, elScrollTop, store, inflight, speechVars >>

\* the browser runs the oldest requestAnimationFrame callback
AnimationFrame ==
  /\ rafQueue # <<>>
  /\ CanWrite
  /\ rafQueue' = Tail(rafQueue)
  /\ rafRef' = IF Head(rafQueue) = "scroll" THEN FALSE ELSE rafRef
  /\ inflight' = writeProgressNow(inflight, containerAttached)
  /\ NoAutoScroll
  /\ UNCHANGED << readerVars, layoutVars, fontVars, scrollVars, store, speechVars >>

\* the store commits the oldest update
StoreCommit ==
  /\ inflight # <<>>
  /\ store' = Head(inflight)
  /\ inflight' = Tail(inflight)
  /\ NoAutoScroll
  /\ UNCHANGED << readerVars, layoutVars, fontVars, scrollVars, rafRef, rafQueue, speechVars >>

\* A+ / A-: the layout is recomputed and the container keeps its scrollTop
\* inside the new scroll range
FontClick(d) ==
  /\ phase = "open"
  /\ fontClicks < MaxFontClicks
  /\ fontClicks' = fontClicks + 1
  /\ UNCHANGED scrolls
  /\ fontSize' = clamp(fontSize + d, MIN_FONT_SIZE, MAX_FONT_SIZE)
  /\ paraHeights' = HeightsOf(paragraphs, containerWidth, fontSize')
  /\ paraOffsets' = OffsetsOf(paraHeights')
  /\ elScrollTop' = ClampScroll(elScrollTop, SumSeq(paraHeights'))
  /\ scrollEvt' = (scrollEvt \/ elScrollTop' # elScrollTop)
  /\ NoAutoScroll
  /\ UNCHANGED << readerVars, scrollTop, lastScrollPos, writeVars, store, speechVars >>

\* ------------------------------------------------------- chapter navigation
\* goToChapter that keeps in the scrollTop state the position the container
\* settled at instead of the chapter's offset
goToChapter_ClampedPosition(chapterIndex) ==
  /\ containerAttached
  /\ Len(rafQueue) < MaxRaf
  /\ LET first  == FirstParaOfChapter(chapterIndex)
         offset == IF first >= 0 THEN At(paraOffsets, first) ELSE 0
     IN /\ elScrollTop' = ClampScroll(offset, totalHeight)
        /\ scrollTop' = elScrollTop'
        /\ scrollEvt' = (scrollEvt \/ elScrollTop' # elScrollTop)
  /\ rafQueue' = Append(rafQueue, "chapter")
  /\ UNCHANGED << readerVars, layoutVars, fontVars, lastScrollPos, rafRef, inflight, store,
                  speechVars >>

\* goToChapter that stays where it is when the chapter has no paragraph
goToChapter_KeepsPositionWhenEmpty(chapterIndex) ==
  /\ containerAttached
  /\ Len(rafQueue) < MaxRaf
  /\ LET first  == FirstParaOfChapter(chapterIndex)
         offset == IF first >= 0 THEN At(paraOffsets, first) ELSE scrollTop
     IN /\ elScrollTop' = ClampScroll(offset, totalHeight)
        /\ scrollTop' = offset
        /\ scrollEvt' = (scrollEvt \/ elScrollTop' # elScrollTop)
  /\ rafQueue' = Append(rafQueue, "chapter")
  /\ UNCHANGED << readerVars, layoutVars, fontVars, lastScrollPos, rafRef, inflight, store,
                  speechVars >>

goToChapter(chapterIndex) ==
  /\ containerAttached
  /\ Len(rafQueue) < MaxRaf
  /\ LET first  == FirstParaOfChapter(chapterIndex)
         offset == IF first >= 0 THEN At(paraOffsets, first) ELSE 0
     IN /\ elScrollTop' = ClampScroll(offset, totalHeight)
        /\ scrollTop' = offset
        /\ scrollEvt' = (scrollEvt \/ elScrollTop' # elScrollTop)
  /\ rafQueue' = Append(rafQueue, "chapter")
  /\ UNCHANGED << readerVars, layoutVars, fontVars, lastScrollPos, rafRef, inflight, store,
                  speechVars >>

SelectChapter(ci) ==
  /\ phase = "open"
  /\ ci \in 0..(ChapterCount - 1)
  /\ goToChapter(ci)
  /\ NoAutoScroll

goToPrevChapter ==
  /\ phase = "open"
  /\ ChapterCount # 0
  /\ LET cur == Max2(0, currentChapterIndex)
     IN goToChapter(Max2(0, cur - 1))
  /\ NoAutoScroll

\* goToNextChapter that skips a chapter
goToNextChapter_SkipsOne ==
  /\ phase = "open"
  /\ ChapterCount # 0
  /\ LET cur == Max2(0, currentChapterIndex)
     IN goToChapter(Min2(ChapterCount - 1, cur + 2))
  /\ NoAutoScroll

goToNextChapter ==
  /\ phase = "open"
  /\ ChapterCount # 0
  /\ LET cur == Max2(0, currentChapterIndex)
     IN goToChapter(Min2(ChapterCount - 1, cur + 1))
  /\ NoAutoScroll

\* values of the progress slider (min 0, max 100) the user drags it to
SliderStops == {0, 50, 100}

\* onChange of the progress slider: seeks to val percent of the scroll range
\* and writes the position at once.  Positions are whole pixels here, so
\* only the values that map to one are taken.
handleProgressChange(val) ==
  /\ phase = "open"
  /\ containerAttached
  /\ scrolls < MaxScrolls
  /\ CanWrite
  /\ (val * MaxScroll) % 100 = 0
  /\ LET newScrollTop == (val * MaxScroll) \div 100
     IN /\ elScrollTop' = ClampScroll(newScrollTop, totalHeight)
        /\ scrollTop' = newScrollTop
        /\ scrollEvt' = (scrollEvt \/ elScrollTop' # elScrollTop)
        /\ inflight' =
             IF book = 0 THEN inflight
             ELSE Append(inflight,
                         [progressPx |-> elScrollTop',
                          percent    |-> Percent(elScrollTop', Max2(1, MaxScroll))])
  /\ scrolls' = scrolls + 1
  /\ NoAutoScroll
  /\ UNCHANGED << readerVars, layoutVars, fontSize, fontClicks, lastScrollPos,
                  rafRef, rafQueue, store, speechVars >>

\* --------------------------------------------------------- speech sequencer
\* the start button (shown while !isReading)
startReadingFromScreenTop ==
  /\ phase = "open"
  /\ ~isReading
  /\ starts < MaxStarts
  /\ starts' = starts + 1
  /\ isPaused' = FALSE
  /\ IF Len(paragraphs) = 0
     THEN /\ autoScroll' = NoScroll
          /\ UNCHANGED << isReading, readingIndex, isReadingRef,
                          currentUtteranceRef, synth, late, handed,
                          elScrollTop, scrollEvt >>
     ELSE /\ late' = late \cup Cancelled(synth)
          /\ isReadingRef' = TRUE
          /\ LET startIdx == findParagraphAtScroll(elScrollTop)
                 eff      == ParagraphEffect(starts + 1, paraOffsets, startIdx)
             IN Apply(eff, <<>>, TRUE)
  /\ UNCHANGED << readerVars, layoutVars, fontVars, scrollTop, lastScrollPos, writeVars,
                  store, synthPaused >>

\* currentUtteranceRef.current.onend = null
DropOnEnd(u) ==
  IF UtterKey(u) = currentUtteranceRef THEN [u EXCEPT !.onend = FALSE] ELSE u

\* the fields of the speech session stopReading reads or writes
Session ==
  [isReadingRef |-> isReadingRef, isReading |-> isReading,
   isPaused |-> isPaused, readingIndex |-> readingIndex,
   synth |-> synth, late |-> late]

\* the session stopReading leaves when it runs on session s
stopped(s) ==
  [s EXCEPT !.isReadingRef = FALSE,
            !.isReading = FALSE,
            !.isPaused = FALSE,
            !.late = {DropOnEnd(u) : u \in s.late \cup Cancelled(s.synth)},
            !.synth = <<>>]

\* the stop button (shown while isReading)
stopReading ==
  /\ phase = "open"
  /\ isReading
  /\ LET t == stopped(Session)
     IN /\ isReadingRef' = t.isReadingRef
        /\ isReading' = t.isReading
        /\ isPaused' = t.isPaused
        /\ readingIndex' = t.readingIndex
        /\ late' = t.late
        /\ synth' = t.synth
  /\ NoAutoScroll
  /\ UNCHANGED << readerVars, layoutVars, fontVars, scrollVars, writeVars, store,
                  currentUtteranceRef, starts, synthPaused, handed >>

\* a pause that also empties the engine's queue
pauseReading_ClearsQueue ==
  /\ phase = "open"
  /\ isReading /\ ~isPaused
  /\ synthPaused' = TRUE
  /\ isPaused' = TRUE
  /\ synth' = <<>>
  /\ NoAutoScroll
  /\ UNCHANGED << readerVars, layoutVars, fontVars, scrollVars, writeVars, store,
                  isReading, readingIndex, isReadingRef, currentUtteranceRef,
                  starts, late, handed >>

\* the pause button (shown while isReading and !isPaused)
pauseReading ==
  /\ phase = "open"
  /\ isReading /\ ~isPaused
  /\ synthPaused' = TRUE
  /\ isPaused' = TRUE
  /\ NoAutoScroll
  /\ UNCHANGED << readerVars, layoutVars, fontVars, scrollVars, writeVars, store,
                  isReading, readingIndex, isReadingRef, currentUtteranceRef,
                  starts, synth, late, handed >>

\* the resume button (shown while isReading and isPaused)
resumeReading ==
  /\ phase = "open"
  /\ isReading /\ isPaused
  /\ synthPaused' = FALSE
  /\ isPaused' = FALSE
  /\ NoAutoScroll
  /\ UNCHANGED << readerVars, layoutVars, fontVars, scrollVars, writeVars, store,
                  isReading, readingIndex, isReadingRef, currentUtteranceRef,
                  starts, synth, late, handed >>

speechFrame == << readerVars, layoutVars, fontVars, scrollTop, lastScrollPos, writeVars,
                  store, isPaused, isReadingRef, starts, synthPaused >>

\* utter.onend of the utterance being spoken
UtterEnd ==
  /\ synth # <<>>
  /\ ~synthPaused
  /\ LET u == Head(synth)
     IN IF u.onend
        THEN Apply(ChunkEffect(u), Tail(synth), isReading)
        ELSE Apply([kind |-> "none"], Tail(synth), isReading)
  /\ UNCHANGED << speechFrame, late >>

\* an onerror handler that speaks the failed chunk again
UtterError_Retry ==
  /\ synth # <<>>
  /\ Apply([kind   |-> "speak",
            ri     |-> readingIndex,
            scroll |-> Null,
            utter  |-> Head(synth)], Tail(synth), isReading)
  /\ UNCHANGED << speechFrame, late >>

\* utter.onerror of the utterance being spoken
UtterError ==
  /\ synth # <<>>
  /\ Apply(ChunkEffect(Head(synth)), Tail(synth), isReading)
  /\ UNCHANGED << speechFrame, late >>

\* the error event of an utterance removed by cancel()
LateError(u) ==
  /\ u \in late
  /\ late' = late \ {u}
  /\ Apply(ChunkEffect(u), synth, isReading)
  /\ UNCHANGED speechFrame

\* the end event of an utterance removed by cancel() (engines that report
\* a cancelled utterance as ended)
LateEnd(u) ==
  /\ u \in late
  /\ late' = late \ {u}
  /\ IF u.onend
     THEN Apply(ChunkEffect(u), synth, isReading)
     ELSE Apply([kind |-> "none"], synth, isReading)
  /\ UNCHANGED speechFrame

\* the reader is torn down: the cleanup of the unmount effect runs
\* writeProgressNow and speechSynthesis.cancel().  It is a passive effect
\* cleanup, which React (createRoot) runs after the refs of the deleted
\* tree are detached, so containerRef.current is null inside it
Unmount ==
  /\ phase \in {"open", "missing"}
  /\ phase' = "closed"
  /\ inflight' = writeProgressNow(inflight, FALSE)
  /\ late' = late \cup Cancelled(synth)
  /\ synth' = <<>>
  /\ NoAutoScroll
  /\ UNCHANGED << book, paragraphs, layoutVars, containerWidth, sessionVars,
                  record, fontVars, scrollVars, rafRef, rafQueue, store, isReading, isPaused, readingIndex,
                  isReadingRef, currentUtteranceRef, starts, synthPaused,
                  handed >>

\* get(id) resolves with undefined: a notice is shown and onClose() is
\* called.  The reader stays mounted until its popup has closed; onClose
\* re-renders the book list, which hands the reader a new onClose function,
\* so the load effect (dependencies bookId and onClose) runs again.
LoadMissing ==
  /\ phase \in {"loading", "missing"}
  /\ bookId = 0
  /\ notices < MaxNotices
  /\ notices' = notices + 1
  /\ phase' = "missing"
  /\ NoAutoScroll
  /\ UNCHANGED << bookId, opens, record, book, paragraphs, containerWidth, layoutVars,
                  fontVars, scrollVars, writeVars, store, speechVars >>

\* the book is opened again: a new Reader instance with fresh state and
\* refs.  The font size comes from the reader settings, the store is the
\* one the earlier session wrote to, and the frame callbacks of the old
\* instance find its container ref null and do nothing.
Reopen ==
  /\ phase = "closed"
  /\ opens < MaxReopens
  /\ synth = <<>> /\ late = {}
  /\ opens' = opens + 1
  /\ notices' = 0
  /\ phase' = "loading"
  /\ book' = 0
  /\ paragraphs' = <<>>
  /\ paraHeights' = <<>>
  /\ paraOffsets' = <<>>
  /\ containerWidth' = 0
  /\ scrollTop' = 0
  /\ elScrollTop' = 0
  /\ scrollEvt' = FALSE
  /\ lastScrollPos' = 0
  /\ rafRef' = FALSE
  /\ rafQueue' = <<>>
  /\ isReading' = FALSE
  /\ isPaused' = FALSE
  /\ readingIndex' = Null
  /\ isReadingRef' = FALSE
  /\ currentUtteranceRef' = NoUtter
  /\ handed' = NoUtter
  /\ NoAutoScroll
  /\ UNCHANGED << bookId, record, fontVars, store, inflight, starts, synth,
                  synthPaused, late >>

\* ------------------------------------------------------------ book list
\* the state of the reader, which the book list and the editor leave alone
readerState ==
  << phase, bookId, opens, notices, book, paragraphs, paraHeights,
     paraOffsets, containerWidth, fontSize, fontClicks, scrollTop,
     elScrollTop, scrollEvt, scrolls, rafRef, rafQueue, store, inflight,
     isReading, isPaused, readingIndex, isReadingRef, currentUtteranceRef,
     starts, synth, synthPaused, late, handed, autoScroll, lastScrollPos >>

\* a text file is uploaded: db.books.add of its text with the chapters
\* parseChapters finds in it
handleFileChange(text) ==
  /\ record.id = 0
  /\ record' = [id |-> 1, content |-> text,
                chapters |-> parseChapters(text), updatedAt |-> 0]
  /\ UNCHANGED readerState

\* the editor's save button: db.books.update of title, content and
\* updatedAt; content is what the textarea holds
handleSave(content) ==
  /\ record.id # 0
  /\ record.updatedAt < MaxSaves
  /\ record' = [record EXCEPT !.content = content,
                              !.updatedAt = @ + 1]
  /\ UNCHANGED readerState

\* -------------------------------------------------------------------- spec
Next ==
  \/ \E b \in BookIds : LoadBook(b)
  \/ \E pos \in ScrollStops : UserScroll(pos)
  \/ DeliverScroll
  \/ AnimationFrame
  \/ StoreCommit
  \/ \E d \in {-1, 1} : FontClick(d)
  \/ \E ci \in 0..(ChapterCount - 1) : SelectChapter(ci)
  \/ goToPrevChapter
  \/ goToNextChapter
  \/ \E val \in SliderStops : handleProgressChange(val)
  \/ startReadingFromScreenTop
  \/ stopReading
  \/ pauseReading
  \/ resumeReading
  \/ UtterEnd
  \/ UtterError
  \/ \E u \in late : LateError(u)
  \/ \E u \in late : LateEnd(u)
  \/ Unmount
  \/ LoadMissing
  \/ Reopen
  \/ \E text \in UploadTexts : handleFileChange(text)
  \/ \E content \in EditTexts : handleSave(content)

Spec == Init /\ [][Next]_vars

\* The reader without speech: window, navigation and progress persistence.
NextRead ==
  \/ \E b \in BookIds : LoadBook(b)
  \/ \E pos \in ScrollStops : UserScroll(pos)
  \/ DeliverScroll
  \/ AnimationFrame
  \/ StoreCommit
  \/ \E d \in {-1, 1} : FontClick(d)
  \/ \E ci \in 0..(ChapterCount - 1) : SelectChapter(ci)
  \/ goToPrevChapter
  \/ goToNextChapter
  \/ \E val \in SliderStops : handleProgressChange(val)
  \/ Unmount

SpecRead == Init /\ [][NextRead]_vars

\* The speech sequencer: the store and the animation frames play no part in
\* it (no speech handler reads rafRef, rafQueue, inflight or store).
NextSpeech ==
  \/ \E b \in SpeechBooks : LoadBook(b)
  \/ \E pos \in ScrollStops : UserScroll(pos)
  \/ DeliverScroll
  \/ \E d \in {-1, 1} : FontClick(d)
  \/ startReadingFromScreenTop
  \/ stopReading
  \/ pauseReading
  \/ resumeReading
  \/ UtterEnd
  \/ UtterError
  \/ \E u \in late : LateError(u)
  \/ \E u \in late : LateEnd(u)
  \/ Unmount

SpecSpeech == Init /\ [][NextSpeech]_vars

\* A session left to run: no stop, no pause, no teardown, and the engine
\* completes every utterance it was handed (its end or its error event
\* fires).
NextSpeechLive ==
  \/ \E b \in SpeechBooks : LoadBook(b)
  \/ \E pos \in ScrollStops : UserScroll(pos)
  \/ DeliverScroll
  \/ \E d \in {-1, 1} : FontClick(d)
  \/ startReadingFromScreenTop
  \/ UtterEnd
  \/ UtterError

SpecSpeechLive ==
  Init /\ [][NextSpeechLive]_vars /\ WF_vars(UtterEnd \/ UtterError)

\* Progress persistence with a browser that delivers every scroll event and
\* runs every animation frame callback, and a store that commits every
\* update it was handed.
NextProgressLive ==
  \/ \E b \in BookIds : LoadBook(b)
  \/ \E pos \in ScrollStops : UserScroll(pos)
  \/ DeliverScroll
  \/ AnimationFrame
  \/ StoreCommit
  \/ \E d \in {-1, 1} : FontClick(d)
  \/ Unmount

SpecProgressLive ==
  /\ Init /\ [][NextProgressLive]_vars
  /\ WF_vars(DeliverScroll)
  /\ WF_vars(AnimationFrame)
  /\ WF_vars(StoreCommit)

\* The book list and the editor: a file is uploaded and its record edited.
NextLibrary ==
  \/ \E text \in UploadTexts : handleFileChange(text)
  \/ \E content \in EditTexts : handleSave(content)

SpecLibrary == Init /\ [][NextLibrary]_vars

\* The chunker on the books generated for it: each is opened, read aloud
\* to its end and closed.
NextChunk ==
  \/ \E b \in ChunkBooks : LoadBook(b)
  \/ startReadingFromScreenTop
  \/ UtterEnd
  \/ UtterError
  \/ Unmount

SpecChunk == Init /\ [][NextChunk]_vars

\* The segmenter on the generated books: each is opened and closed.
NextSegment ==
  \/ \E b \in SegmentBooks : LoadBook(b)
  \/ Unmount

SpecSegment == Init /\ [][NextSegment]_vars

\* Sessions in a row on one book record: scrolling, the throttled writes,
\* closing and opening again, and the book that is not found.
NextRestore ==
  \/ \E b \in BookIds : LoadBook(b)
  \/ LoadMissing
  \/ \E pos \in ScrollStops : UserScroll(pos)
  \/ DeliverScroll
  \/ AnimationFrame
  \/ StoreCommit
  \/ Unmount
  \/ Reopen

SpecRestore == Init /\ [][NextRestore]_vars

TypeOK ==
  /\ phase \in {"loading", "open", "closed"}
  /\ scrollTop >= 0
  /\ elScrollTop \in 0..MaxScroll

\* ================================================================== claims
Loaded == phase = "open" /\ book # 0

\* C1: for every scrollTop in [0, totalHeight] the viewport window satisfies
\* 0 <= startIndex <= endIndex <= paragraphCount.
C1_WindowOrdered ==
  (Loaded /\ scrollTop \in 0..totalHeight) =>
    /\ 0 <= startIndex
    /\ startIndex <= endIndex
    /\ endIndex <= Len(paragraphs)

\* C2: when no paragraph offset exceeds scrollTop + viewportHeight, endIndex
\* equals paragraphCount (the window extends to the end of the document).
C2_EndReachesDocumentEnd ==
  (Loaded /\ scrollTop \in 0..totalHeight
          /\ FindIndexGT(paraOffsets, scrollTop + VIEWPORT_HEIGHT) = -1) =>
    endIndex = Len(paragraphs)

\* C3: when no paragraph offset exceeds scrollTop and the document has at
\* least one paragraph, the window contains the final paragraph:
\* startIndex <= paragraphCount - 1 < endIndex.
C3_WindowHoldsFinalParagraph ==
  (Loaded /\ scrollTop \in 0..totalHeight /\ Len(paragraphs) >= 1
          /\ FindIndexGT(paraOffsets, scrollTop) = -1) =>
    /\ startIndex <= Len(paragraphs) - 1
    /\ Len(paragraphs) - 1 < endIndex

\* C4: for a fixed offset index, scrolling forward never moves the window
\* backward: scrollTop1 <= scrollTop2 (both in [0, totalHeight]) implies
\* startIndex and endIndex do not decrease.
C4_WindowMonotonic ==
  [][(Loaded /\ paraOffsets' = paraOffsets
             /\ scrollTop \in 0..totalHeight /\ scrollTop' \in 0..totalHeight
             /\ scrollTop <= scrollTop') =>
       (startIndex <= startIndex' /\ endIndex <= endIndex')]_vars

\* C5: once stop() has run, no completion callback (end or error) of the
\* chunk that was in flight hands another utterance to the audio engine
\* until the next start(): while the liveness flag is false no step speaks.
C5_StopSilencesCallbacks ==
  [][~isReadingRef' => handed' = handed]_vars

\* a session was started and stopped while its chunk was in flight, and the
\* completion event of that chunk has been delivered since
C5_Witness ==
  /\ phase = "open"
  /\ starts = 1
  /\ handed # NoUtter
  /\ ~isReadingRef
  /\ synth = <<>>
  /\ late = {}

\* C6: after the reader is torn down while a chunk is in flight, the
\* completion callback of that chunk does not cause any further utterance to
\* be spoken.
C6_TeardownSilencesCallbacks ==
  [][phase = "closed" => handed' = handed]_vars

\* C7: after stop() the session is Idle (active = false, paused = false), the
\* pending chunks are dropped and the highlight is cleared.
C7_StopClearsSession ==
  [][(isReadingRef /\ ~isReadingRef') =>
       /\ ~isReading'
       /\ ~isPaused'
       /\ synth' = <<>>
       /\ readingIndex' = Null]_vars

\* the chunk that follows chunk h in reading order
IsNextChunk(h, g) ==
  \/ g[2] = h[2] /\ g[3] = h[3] + 1
  \/ g[2] = h[2] + 1 /\ g[3] = 0 /\ h[3] = NumChunks(h[2]) - 1

\* C8: during one speech session the utterances handed to the engine start at
\* the first chunk of the start paragraph and then follow reading order:
\* paragraphs ascending without gap or repeat, chunks in order, once each.
C8_SpokenInOrder ==
  [][(handed' # handed) =>
       IF starts' # starts
       THEN handed'[2] = findParagraphAtScroll(elScrollTop) /\ handed'[3] = 0
       ELSE IsNextChunk(handed, handed')]_vars

\* C9: the offset a speech step scrolls to is the offset of that paragraph in
\* the index derived from the latest font size, width and paragraphs.
C9_AutoScrollUsesLatestOffsets ==
  autoScroll # NoScroll => autoScroll.top = At(paraOffsets, autoScroll.idx)

\* the writes scheduled by scroll events and not yet run
ScheduledScrollWrites(q) == Len(SelectSeq(q, LAMBDA cb : cb = "scroll"))

\* C10: a burst of scroll events between two animation frames schedules at
\* most one persistence write, and the write that fires persists the
\* container's position at that moment, which is the position of the most
\* recent scroll event (no programmatic scroll awaiting its event), not the
\* position of the event that scheduled it.
C10_ScrollWritesCoalesce ==
  [][/\ ScheduledScrollWrites(rafQueue') <= 1
     /\ (rafRef /\ ~rafRef' /\ Loaded) =>
          /\ inflight' = Append(inflight, inflight'[Len(inflight')])
          /\ inflight'[Len(inflight')].progressPx = elScrollTop
          /\ (~scrollEvt => inflight'[Len(inflight')].progressPx = lastScrollPos)
    ]_vars

\* two scroll gestures were coalesced into one write, which carries the
\* position of the second
C10_Witness ==
  /\ Loaded
  /\ scrolls = 2
  /\ ~scrollEvt
  /\ ~rafRef
  /\ rafQueue = <<>>
  /\ store = [progressPx |-> 0, percent |-> 0]
  /\ Len(inflight) = 1
  /\ inflight[1].progressPx = lastScrollPos
  /\ lastScrollPos # 0

\* C11: tearing down a reader that shows a loaded book issues a persistence
\* write that carries the container's current scroll position, whether or
\* not a throttled write is scheduled at that moment.
C11_TeardownFlushesPosition ==
  [][(Loaded /\ phase' = "closed") =>
       /\ Len(inflight') = Len(inflight) + 1
       /\ inflight'[Len(inflight')].progressPx = elScrollTop]_vars

C13_ScrollTopInRange ==
  (Loaded /\ fontClicks = 0) =>
    (0 <= scrollTop /\ scrollTop <= Max2(0, totalHeight - VIEWPORT_HEIGHT))

\* C14: the layout memos are those of the current paragraphs, width and font
\* size, and the offset index built from them has one offset per paragraph,
\* starts at 0, grows by exactly the height of each paragraph (so it is
\* non-decreasing) and ends totalHeight below the end of the last paragraph.
C14_OffsetIndexConsistent ==
  /\ paraHeights = HeightsOf(paragraphs, containerWidth, fontSize)
  /\ Len(paraOffsets) = Len(paragraphs)
  /\ Len(paraOffsets) > 0 => At(paraOffsets, 0) = 0
  /\ \A i \in 0..(Len(paraOffsets) - 2) :
       /\ At(paraOffsets, i + 1) - At(paraOffsets, i) = At(paraHeights, i)
       /\ At(paraOffsets, i) <= At(paraOffsets, i + 1)
  /\ Len(paraOffsets) > 0 =>
       totalHeight = paraOffsets[Len(paraOffsets)] + paraHeights[Len(paraHeights)]
  /\ Len(paraOffsets) = 0 => totalHeight = 0

\* the layout of a book of several paragraphs was recomputed for a new font
\* size
C14_Witness ==
  /\ Loaded
  /\ fontClicks = 1
  /\ fontSize # DEFAULT_FONT_SIZE
  /\ Len(paragraphs) >= 3
  /\ paraHeights # HeightsOf(paragraphs, containerWidth, DEFAULT_FONT_SIZE)

\* C15: the error event of the chunk being spoken advances the session as
\* its end event does: the step it takes is the step of the end handler (same
\* paragraph, same next chunk, same active flag); a live session then speaks
\* the next chunk in reading order or has reached the end of the book, so
\* the failed chunk is neither retried nor the session aborted.
C15_ErrorAdvancesAsEnd ==
  [][(UtterError /\ ~synthPaused) =>
       /\ UtterEnd
       /\ (isReadingRef /\ isReading) =>
            \/ IsNextChunk(UtterKey(Head(synth)), handed')
            \/ /\ ~isReading'
               /\ handed' = handed
               /\ SkipEmpty(Head(synth).idx + 1) >= Len(paragraphs)]_vars

\* a live session has advanced past its first chunk
C15_Witness ==
  /\ phase = "open"
  /\ starts = 1
  /\ isReadingRef /\ isReading
  /\ synth # <<>>
  /\ handed = <<1, 0, 1>>
  /\ late = {}

\* Idle reached by running out of paragraphs: speakParagraph leaves the
\* liveness flag set when it ends the session
IdleByExhaustion == isReadingRef /\ ~isReading

\* C16: when the chunks of the last paragraph are exhausted the session
\* becomes Idle and the highlight is cleared, and from then on no utterance
\* is spoken until the next start().
C16_EndOfBookIdle ==
  [][/\ (isReading /\ IdleByExhaustion') =>
          (readingIndex' = Null /\ handed' = handed)
     /\ (IdleByExhaustion /\ starts' = starts) => handed' = handed]_vars

\* the paragraph that spans position pos in the offset index: the i with
\* offsets[i] <= pos < offsets[i] + heightPx[i], the last one at or beyond
\* totalHeight
ParagraphSpanning(pos) ==
  IF pos >= totalHeight THEN Len(paragraphs) - 1
  ELSE CHOOSE i \in 0..(Len(paragraphs) - 1) :
         At(paraOffsets, i) <= pos /\ pos < At(paraOffsets, i) + At(paraHeights, i)

\* the paragraph with the greatest offset <= pos, as currentChapterIndex
\* scans for it
ParagraphAtOrBefore(pos) ==
  CHOOSE i \in 0..(Len(paragraphs) - 1) :
    /\ At(paraOffsets, i) <= pos
    /\ \A m \in 0..(Len(paragraphs) - 1) : At(paraOffsets, m) <= pos => m <= i

\* C17: start() begins at the paragraph that spans the top of the viewport
\* (the container's scroll position) in the current offset index, which is
\* the paragraph with the greatest offset not above that position.
C17_StartAtViewportTop ==
  [][(starts' # starts /\ Len(paragraphs) > 0) =>
       /\ readingIndex' = ParagraphSpanning(elScrollTop)
       /\ readingIndex' = ParagraphAtOrBefore(elScrollTop)
       /\ handed' = <<starts', readingIndex', 0>>]_vars

\* reading was started with the viewport top exactly on the boundary between
\* the first and the second paragraph
C17_Witness ==
  /\ phase = "open"
  /\ starts = 1
  /\ book = 2
  /\ elScrollTop = At(paraOffsets, 1)
  /\ readingIndex = 1
  /\ handed = <<1, 1, 0>>

\* C18: pause() and resume() flip the paused flag together with the
\* engine's paused state and leave the active flag, the liveness flag, the
\* highlighted paragraph, the current utterance and the engine's queue as they
\* were.
C18_PauseResumeFrame ==
  [][(pauseReading \/ resumeReading) =>
       /\ isPaused' = ~isPaused
       /\ synthPaused' = isPaused'
       /\ UNCHANGED << isReading, isReadingRef, readingIndex,
                       currentUtteranceRef, synth, late, handed >>]_vars

\* a session was paused in the middle of a paragraph, its second chunk
\* waiting in the engine
C18_Witness ==
  /\ phase = "open"
  /\ isReading /\ isPaused /\ synthPaused
  /\ readingIndex = 0
  /\ Len(synth) = 1
  /\ handed = <<1, 0, 1>>

\* the fields of a session an observer can tell apart: active, paused,
\* highlight and liveness flag
Observable(s) == << s.isReading, s.isPaused, s.readingIndex, s.isReadingRef >>

\* C19: stop() is idempotent: run on the session a stop() left, it yields
\* that session again, which is Idle; and run on any Idle session it changes
\* none of the observable fields.
C19_StopIdempotent ==
  /\ stopped(stopped(Session)) = stopped(Session)
  /\ ~stopped(Session).isReading
  /\ ~isReading => Observable(stopped(Session)) = Observable(Session)

\* t occurs in s as a run of consecutive characters
OccursIn(t, s) ==
  \E a \in 1..(Len(s) + 1) :
    a + Len(t) - 1 <= Len(s) /\ SubSeq(s, a, a + Len(t) - 1) = t

\* the slice [chapters[i].offset, chapters[i+1].offset) of the text of book
\* b, the last slice running to the end of the text
ChapterSlice(b, i) ==
  LET text == BookOf(b).content
      cs   == SortAsc(BookOf(b).chapters)
  IN Slice(text, At(cs, i),
           IF i + 1 < Len(cs) THEN At(cs, i + 1) ELSE Len(text))

\* C20: for a book with chapters, every paragraph text is non-empty and
\* trimmed, chapterIndex never decreases along the paragraphs, and each
\* paragraph carries the ordinal of a chapter whose slice of the text holds
\* the paragraph's text.
C20_SegmenterChapterInvariant ==
  (Loaded /\ ChapterCount > 0) =>
    \A k \in 1..Len(paragraphs) :
      /\ paragraphs[k].text # <<>>
      /\ Trim(paragraphs[k].text) = paragraphs[k].text
      /\ paragraphs[k].chapterIndex \in 0..(ChapterCount - 1)
      /\ OccursIn(paragraphs[k].text, ChapterSlice(book, paragraphs[k].chapterIndex))
      /\ k > 1 => paragraphs[k - 1].chapterIndex <= paragraphs[k].chapterIndex

\* a generated book whose text " b\n a" (chapters at 1 and 4) gave one
\* trimmed paragraph in each of its two chapters
C20_Witness ==
  /\ Loaded
  /\ book \in SegmentBooks
  /\ BookOf(book).content = <<SP, "b", NL, SP, "a">>
  /\ BookOf(book).chapters = <<1, 4>>
  /\ paragraphs = << [text |-> <<"b">>, chapterIndex |-> 0],
                     [text |-> <<"a">>, chapterIndex |-> 1] >>

\* the texts of a paragraph sequence
ParaTexts(ps) == [k \in 1..Len(ps) |-> ps[k].text]

\* C21: a book without chapters is split as one chapter slice is: its
\* paragraph texts are those of the same text with a single chapter at offset
\* 0, and every chapterIndex is none.
C21_NoChaptersSplitAlike ==
  (Loaded /\ BookOf(book).chapters = <<>>) =>
    /\ ParaTexts(paragraphs) =
         ParaTexts(Segment([content  |-> BookOf(book).content,
                            chapters |-> <<0>>]))
    /\ \A k \in 1..Len(paragraphs) : paragraphs[k].chapterIndex = Null

\* C22: a chapter whose slice is empty or all white space has no paragraph,
\* and goToChapter on a chapter without paragraphs scrolls the container and
\* the scrollTop state to 0 and schedules a frame callback, which writes the
\* container's position when it runs.
C22_EmptyChapterNavigable ==
  [][/\ \A c \in 0..(ChapterCount - 1) :
          /\ (Loaded /\ Trim(ChapterSlice(book, c)) = <<>>) =>
               FirstParaOfChapter(c) = -1
          /\ (Loaded /\ FirstParaOfChapter(c) = -1 /\ goToChapter(c)) =>
               /\ scrollTop' = 0
               /\ elScrollTop' = 0
               /\ rafQueue' = Append(rafQueue, "chapter")
     /\ (Loaded /\ rafQueue # <<>> /\ Head(rafQueue) = "chapter"
               /\ rafQueue' = Tail(rafQueue)) =>
          /\ Len(inflight') = Len(inflight) + 1
          /\ inflight'[Len(inflight')].progressPx = elScrollTop]_vars

\* from the end of a book whose last chapter is a lone newline the reader
\* went to a chapter and is at the top, and the write of that jump is out
C22_Witness ==
  /\ Loaded
  /\ book = 1
  /\ FirstParaOfChapter(3) = -1
  /\ lastScrollPos = MaxScroll
  /\ scrollTop = 0
  /\ elScrollTop = 0
  /\ rafQueue = <<>>
  /\ inflight # <<>>
  /\ inflight[Len(inflight)].progressPx = 0

\* C24: when get(id) finds no book the reader never has a paragraph, never
\* hands an update to the store, and shows exactly one notice before it
\* closes.
C24_MissingBookAborts ==
  (bookId = 0 /\ phase \in {"missing", "closed"}) =>
    /\ book = 0
    /\ paragraphs = <<>>
    /\ inflight = <<>>
    /\ store = [progressPx |-> 0, percent |-> 0]
    /\ notices = 1

C23_PrevNextClamped ==
  [][/\ goToPrevChapter =>
          /\ ChapterCount > 0
          /\ goToChapter(clamp(currentChapterIndex - 1, 0, ChapterCount - 1))
     /\ goToNextChapter =>
          /\ ChapterCount > 0
          /\ goToChapter(clamp(currentChapterIndex + 1, 0, ChapterCount - 1))
    ]_vars

\* a chapter was navigated to in the book whose chapters are all white
\* space, where the current chapter is none
C23_Witness ==
  /\ Loaded
  /\ book = 4
  /\ ChapterCount = 2
  /\ currentChapterIndex = -1
  /\ rafQueue # <<>>
  /\ rafQueue[Len(rafQueue)] = "chapter"

\* p is x / denom * 100 rounded to the nearest integer (halves up) and
\* clamped to [0, 100]
IsRoundedPercent(p, x, denom) ==
  /\ p \in 0..100
  /\ \/ 2 * denom * p - denom <= 200 * x /\ 200 * x < 2 * denom * p + denom
     \/ p = 100 /\ 200 * x >= 199 * denom

\* C26: every write carries percent = round(clamp(progressPx / max(1,
\* totalHeight - viewportHeight), 0, 1) * 100), an integer in [0, 100], also
\* when the content is shorter than the viewport; scrollTop 50 of a range of
\* 200 - 100 gives 50.
C26_PercentFormula ==
  [][/\ Len(inflight') > Len(inflight) =>
          IsRoundedPercent(inflight'[Len(inflight')].percent,
                           inflight'[Len(inflight')].progressPx,
                           Max2(1, totalHeight - VIEWPORT_HEIGHT))
     /\ Percent(50, Max2(1, 200 - 100)) = 50]_vars

\* a write from a position whose percent is not a whole number before
\* rounding (104 of 112), and the book shorter than the viewport exists
C26_Witness ==
  /\ Loaded
  /\ book = 2
  /\ fontClicks = 0
  /\ inflight # <<>>
  /\ inflight[Len(inflight)] = [progressPx |-> 104, percent |-> 93]

\* container widths the estimator is compared on
EstimatorWidths == {1, 3, ClientWidth, 300}

\* text t with character ch added after its first i characters
Insert(t, i, ch) == SubSeq(t, 1, i) \o <<ch>> \o SubSeq(t, i + 1, Len(t))

\* C27: at a fixed font size the estimated height of a paragraph is
\* positive, does not decrease when a character is added to the paragraph
\* anywhere, and does not decrease when the non-zero width decreases.
C27_EstimateMonotonic ==
  Loaded =>
    \A k \in 1..Len(paragraphs) : \A w \in EstimatorWidths :
      LET t == paragraphs[k].text
          h == estimateParaHeight(t, w, fontSize)
      IN /\ h > 0
         /\ \A i \in 0..Len(t) : \A j \in 1..Len(Alphabet) :
              estimateParaHeight(Insert(t, i, Alphabet[j]), w, fontSize) >= h
         /\ \A v \in EstimatorWidths :
              v < w => estimateParaHeight(t, v, fontSize) >= h

\* a paragraph of two lines was laid out: one row for its first line, two
\* for its second
C27_Witness ==
  /\ Loaded
  /\ book \in SegmentBooks
  /\ Len(paragraphs) = 1
  /\ paragraphs[1].text = <<"a", NL, "b", SP, "a">>
  /\ paraHeights = <<3 * lineHeight + 16>>

\* C28: for width 0 the estimate of every paragraph is exactly the line
\* height, whatever its length and number of lines (no division by the
\* width takes place).
C28_ZeroWidthFallback ==
  Loaded =>
    /\ \A k \in 1..Len(paragraphs) :
         estimateParaHeight(paragraphs[k].text, 0, fontSize) = lineHeight
    /\ SumSeq(HeightsOf(paragraphs, 0, fontSize)) = Len(paragraphs) * lineHeight

\* a book with a paragraph of two lines was loaded (its position was
\* restored against the zero-width layout, the paragraph then laid out for
\* the container's width)
C28_Witness ==
  /\ Loaded
  /\ book \in SegmentBooks
  /\ Len(paragraphs) = 1
  /\ paragraphs[1].text = <<"b", NL, "a">>
  /\ paraHeights[1] > lineHeight
  /\ elScrollTop = 0

\* no paragraph of a loaded book is empty after trimming: the case of
\* claim C29 (the branch of speakParagraph for an empty paragraph) has no
\* reachable state
NoEmptyParagraph ==
  \A k \in 1..Len(paragraphs) : Trim(paragraphs[k].text) # <<>>

\* C30: whatever the interleaving of stop(), a later start() and late
\* completion callbacks of utterances issued before the stop, every utterance
\* handed to the engine belongs to the latest session.
C30_OnlyLatestSessionSpeaks ==
  [][handed' # handed => handed'[1] = starts']_vars

\* C31: in every reachable state the liveness flag the completion callbacks
\* check equals the active flag of the session; it is false whenever the
\* session is Idle, also after the session ended at the end of the book.
C31_LivenessFlagMatchesActive ==
  /\ isReadingRef = isReading
  /\ ~isReading => ~isReadingRef

\* C32: the session is Idle, Speaking or Paused: whenever the paused flag is
\* set the active flag is set too, also when a completion callback arrives
\* after pause() and exhausts the last paragraph.
C32_PausedImpliesActive == isPaused => isReading

\* the utterance handed to the engine last is the last chunk of the last
\* paragraph, spoken by the latest session
LastChunkSpoken ==
  /\ Len(paragraphs) > 0
  /\ handed = << starts, Len(paragraphs) - 1,
                 NumChunks(Len(paragraphs) - 1) - 1 >>

\* C33: when every spoken chunk completes, with success or with an error,
\* and neither stop() nor pause() is issued, a started session eventually
\* reaches Idle, after it has spoken the last chunk of the last paragraph.
C33_SessionReachesIdle ==
  isReading ~> (~isReading /\ readingIndex = Null /\ synth = <<>>
                           /\ LastChunkSpoken)

\* a session started at the top of the three-paragraph book has run to the
\* end of the book
C33_Witness ==
  /\ phase = "open"
  /\ book = 2
  /\ starts = 1
  /\ ~isReading
  /\ readingIndex = Null
  /\ synth = <<>>
  /\ handed = <<1, 2, 0>>

\* paragraph i (0-based) shares more than an edge with the visible range
\* [st, st + VIEWPORT_HEIGHT]
Visible(i, st) ==
  /\ At(paraOffsets, i) < st + VIEWPORT_HEIGHT
  /\ At(paraOffsets, i) + At(paraHeights, i) > st

\* C34: every paragraph that intersects the visible range
\* [scrollTop, scrollTop + VIEWPORT_HEIGHT] has its index in
\* [startIndex, endIndex), for every scrollTop in [0, totalHeight].
C34_VisibleMaterialized ==
  (Loaded /\ scrollTop \in 0..totalHeight) =>
    \A i \in 0..(Len(paragraphs) - 1) :
      Visible(i, scrollTop) => (startIndex <= i /\ i < endIndex)

\* C35: nextChapter never moves the reading position backwards: scrollTop
\* after it (the position state and the container's) is >= scrollTop before
\* it, for every book and every scroll position.
C35_NextChapterForward ==
  [][goToNextChapter =>
       (scrollTop' >= scrollTop /\ elScrollTop' >= elScrollTop)]_vars

\* C36: once scroll events have stopped, with animation frames firing and
\* store updates committing, the progressPx of the book record eventually
\* equals the final scrollTop of the container and stays equal to it.
C36_StoreCatchesUp ==
  <>[](book # 0 => store.progressPx = elScrollTop)

\* the characters of s that are not white space, in order
NonSpace(s) == SelectSeq(s, LAMBDA c : ~IsSpace(c))

RECURSIVE Flatten(_)
Flatten(ss) == IF ss = <<>> THEN <<>> ELSE Head(ss) \o Flatten(Tail(ss))

\* chapter offsets that ascend and lie within the text
SortedInRange(cs, n) ==
  /\ \A k \in 1..Len(cs) : cs[k] \in 0..n
  /\ \A k \in 1..(Len(cs) - 1) : cs[k] <= cs[k + 1]

\* C37: the segmenter loses no text: for a book whose chapters are sorted
\* and in range, the non-white-space characters of the paragraphs, taken in
\* paragraph order, are exactly those of the content, in the same order.
C37_SegmenterLosesNoText ==
  (Loaded /\ SortedInRange(BookOf(book).chapters, Len(BookOf(book).content))) =>
    NonSpace(Flatten(ParaTexts(paragraphs))) = NonSpace(BookOf(book).content)

\* the paragraph at the top of the viewport: the one that spans the
\* container's scroll position in the offset index of the state
TopParagraph == findParagraphAtScroll(elScrollTop)

\* C38: changing the font size keeps the reader on the same paragraph: the
\* index of the paragraph at the top of the viewport is the same before and
\* after the offset index is recomputed for the new font size.
C38_FontChangeKeepsParagraph ==
  [][((\E d \in {-1, 1} : FontClick(d)) /\ Len(paragraphs) > 0) =>
       TopParagraph' = TopParagraph]_vars

\* the book-record invariant: chapters sorted ascending by offset, offsets
\* unique and within [0, len(content)]
RecordInvariant(r) ==
  /\ \A k \in 1..Len(r.chapters) : r.chapters[k] \in 0..Len(r.content)
  /\ \A k \in 1..(Len(r.chapters) - 1) : r.chapters[k] < r.chapters[k + 1]

\* C39: the book-record invariant holds after every operation that writes
\* a book: after the upload and after an editor save of changed content.
C39_BookRecordInvariant == record.id # 0 => RecordInvariant(record)

\* s consists of spaces only
AllSpace(s) == \A k \in 1..Len(s) : s[k] = SP

\* t is the concatenation of the chunks with nothing but spaces between,
\* before and after them
RECURSIVE Rejoins(_, _)
Rejoins(chunks, t) ==
  IF chunks = <<>> THEN AllSpace(t)
  ELSE \E k \in 0..Len(t) :
         /\ AllSpace(SubSeq(t, 1, k))
         /\ k + Len(Head(chunks)) <= Len(t)
         /\ SubSeq(t, k + 1, k + Len(Head(chunks))) = Head(chunks)
         /\ Rejoins(Tail(chunks), SubSeq(t, k + Len(Head(chunks)) + 1, Len(t)))

\* the maximum lengths the chunker is examined with
ChunkLens == (1..MaxChunkLen) \cup {MAX_CHUNK_LEN}

\* C40: for every non-empty trimmed paragraph text and maximum length L,
\* chunkText returns a non-empty list of chunks, each of length between 1
\* and L, whose concatenation in order is the whitespace-collapsed text up
\* to spaces removed at chunk boundaries.
C40_ChunkTextPartitions ==
  Loaded =>
    \A k \in 1..Len(paragraphs) : \A L \in ChunkLens :
      LET text   == Trim(paragraphs[k].text)
          chunks == chunkText(text, L)
      IN text # <<>> =>
           /\ chunks # <<>>
           /\ \A m \in 1..Len(chunks) : Len(chunks[m]) \in 1..L
           /\ Rejoins(chunks, CollapseSpace(text))
           /\ Len(Flatten(chunks)) <= Len(CollapseSpace(text))

\* the paragraph "a. a." is being read, its second chunk handed to the
\* engine; with a maximum length of 1 it is cut into single characters, the
\* space one of them
C40_Witness ==
  /\ Loaded
  /\ book \in ChunkBooks
  /\ Len(paragraphs) = 1
  /\ paragraphs[1].text = <<"a", ".", SP, "a", ".">>
  /\ isReading
  /\ handed = <<1, 0, 1>>
  /\ chunkText(paragraphs[1].text, MAX_CHUNK_LEN) = << <<"a", ".">>, <<"a", ".">> >>
  /\ chunkText(paragraphs[1].text, 1) =
       << <<"a">>, <<".">>, <<SP>>, <<"a">>, <<".">> >>


============================================================================
